---------------------------- MODULE Spec2Model ----------------------------
(***************************************************************************)
(* State-machine model of the two bridge sidecars of elephant.ai:          *)
(*   scripts/cc_bridge/cc_bridge.py       (the SDK variant)                *)
(*   scripts/codex_bridge/codex_bridge.py (the CLI variant)                *)
(*                                                                         *)
(* One behaviour is one process lifetime.  The main flow advances one      *)
(* Python statement per step; the SIGTERM handler may be entered between   *)
(* any two steps once signal.signal() has run, and may itself be           *)
(* re-entered by a further SIGTERM.  _emit is two steps (write, flush).    *)
(***************************************************************************)
EXTENDS Integers, Sequences, FiniteSets, TLC

VARIABLES
    variant,          \* "sdk" (cc_bridge.py) or "cli" (codex_bridge.py)
    outputFile,       \* TRUE iff --output-file was given
    stdinKind,        \* what sys.stdin.readline() returns (see StdinKinds)
    pc,               \* position of the main flow
    todo,             \* statements the main flow has still to run before pc applies
    handlerInstalled, \* signal.signal(SIGTERM, _sigterm_handler) has run
    shutting_down,    \* the module global _shutting_down
    hstack,           \* frames of _sigterm_handler, innermost last
    sigCount,         \* SIGTERMs delivered so far
    sigStage,         \* stage of the main flow when the first handled SIGTERM came
    out,              \* lines the host can read from the output sink
    buf,              \* lines written but still pending in the text buffer
    produced,         \* every event handed to _output_sink.write, in call order
    done,             \* the .done sentinel exists
    exited,           \* the process has exited
    exitCode,         \* its exit status (meaningful when exited)
    exitPath,         \* which exit path was taken (label, "" while running)
    iteration,        \* iteration (CLI) / _iteration (SDK)
    tokens,           \* total_input_tokens + total_output_tokens (CLI)
    last_answer,      \* last_answer (CLI)
    nread,            \* upstream lines / messages consumed so far
    backendStarted,   \* a client session or a child process was started
    nsuppressed,      \* suppressed tool calls met so far (history)
    ncallbacks,       \* PostToolUse callbacks received so far (history, SDK)
    binary,           \* the "binary" field of the config (CLI), "" when absent
    child,            \* return code and stderr of the child once waited for (CLI)
    fn,               \* argument and value of a helper applied on its own
    sinkBroken,       \* the output sink rejects what is written to it
    pipe              \* the child and the two pipes between it and the bridge (CLI)

vars == <<variant, outputFile, stdinKind, pc, todo, handlerInstalled,
          shutting_down, hstack, sigCount, sigStage, out, buf, produced,
          done, exited, exitCode, exitPath, iteration, tokens, last_answer,
          nread, backendStarted, nsuppressed, ncallbacks, binary, child, fn,
          sinkBroken, pipe>>

cfgVars == <<variant, outputFile, stdinKind, binary, sinkBroken, pipe>>
auxVars == <<child, fn>>
sinkVars == <<out, buf, produced>>
sigVars == <<handlerInstalled, shutting_down, hstack, sigCount, sigStage>>
procVars == <<done, exited, exitCode, exitPath>>
runVars == <<iteration, tokens, last_answer, nread, backendStarted, nsuppressed,
            ncallbacks>>

---------------------------------------------------------------------------
(* Bounds of the model.                                                    *)
MaxUpstream == 3      \* upstream lines (CLI) or messages (SDK) per run
MaxSignals == 2       \* SIGTERMs delivered per run

(* signal.SIGTERM *)
SIGTERM == 15

---------------------------------------------------------------------------
(* Text.  A string the code inspects is a sequence of tokens, so that     *)
(* split("(") and strip() compute something.                               *)
Str(s) == <<s>>

(* str.split("(")[0]: the tokens before the first "(" *)
RECURSIVE BeforeParen(_)
BeforeParen(name) ==
    IF name = <<>> \/ Head(name) = "(" THEN <<>>
    ELSE <<Head(name)>> \o BeforeParen(Tail(name))

(* str.strip(): drop the blank tokens at both ends *)
RECURSIVE Strip(_)
Strip(name) ==
    IF name = <<>> THEN <<>>
    ELSE IF Head(name) = " " THEN Strip(Tail(name))
    ELSE IF name[Len(name)] = " " THEN Strip(SubSeq(name, 1, Len(name) - 1))
    ELSE name

(* str.strip('"'): drop the double quotes at both ends *)
RECURSIVE StripQuotes(_)
StripQuotes(s) ==
    IF s = <<>> THEN <<>>
    ELSE IF Head(s) = "\"" THEN StripQuotes(Tail(s))
    ELSE IF s[Len(s)] = "\"" THEN StripQuotes(SubSeq(s, 1, Len(s) - 1))
    ELSE s

(* str.startswith(p) *)
StartsWith(s, p) == Len(s) >= Len(p) /\ SubSeq(s, 1, Len(p)) = p

(* The positions of s at which sub occurs ("sub in s": there is one;       *)
(* s.index(sub): the least).                                               *)
Occurrences(s, sub) ==
    {i \in 1..(Len(s) - Len(sub) + 1) : SubSeq(s, i, i + Len(sub) - 1) = sub}

(* s[:n] *)
Slice(s, n) == SubSeq(s, 1, IF Len(s) < n THEN Len(s) ELSE n)

(* str(n) of an int *)
Digit(d) == <<"0", "1", "2", "3", "4", "5", "6", "7", "8", "9">>[d + 1]
RECURSIVE Digits(_)
Digits(n) ==
    IF n < 10 THEN <<Digit(n)>> ELSE Digits(n \div 10) \o <<Digit(n % 10)>>
IntStr(n) == IF n < 0 THEN <<"-">> \o Digits(0 - n) ELSE Digits(n)

(* Characters that tell positions apart: the i-th character of a sample    *)
(* text.                                                                   *)
Ch(i) == <<"a", "b", "c", "d", "e", "f", "g">>[(i % 7) + 1]
Text(n) == [i \in 1..n |-> Ch(i)]

StdinKinds == {"empty", "badjson", "nonobject", "noprompt", "valid"}

(* The events of the protocol, as _emit receives them. *)
ToolEvent(name, summary, it) ==
    [type |-> "tool", message |-> <<>>, tool_name |-> name, summary |-> summary,
     files |-> <<>>, iter |-> it, tokens |-> 0, cost |-> 0, answer |-> "",
     is_error |-> FALSE]
(* The same event with "files" set. *)
WithFiles(e, files) == [e EXCEPT !.files = files]
ResultEvent(ans, tok, its, err) ==
    [type |-> "result", message |-> <<>>, tool_name |-> <<>>, summary |-> <<>>,
     files |-> <<>>, iter |-> its, tokens |-> tok, cost |-> 0, answer |-> ans,
     is_error |-> err]
(* An error event whose message is a formatted text. *)
ErrorText(text) ==
    [type |-> "error", message |-> text, tool_name |-> <<>>, summary |-> <<>>,
     files |-> <<>>, iter |-> 0, tokens |-> 0, cost |-> 0, answer |-> "",
     is_error |-> FALSE]
(* An error event whose message is a literal. *)
ErrorEvent(msg) == ErrorText(Str(msg))

SignalMessage == "bridge terminated by signal"
SignalError == ErrorEvent(SignalMessage)

(* Statements queued in todo. *)
OpWrite(e) == [op |-> "write", ev |-> e, code |-> 0, path |-> ""]
OpFlush == [op |-> "flush", ev |-> ErrorText(<<>>), code |-> 0, path |-> ""]
OpSentinel == [op |-> "sentinel", ev |-> ErrorText(<<>>), code |-> 0, path |-> ""]
OpExit(c, p) == [op |-> "exit", ev |-> ErrorText(<<>>), code |-> c, path |-> p]

(* _emit(event): one write of the whole line, then one flush. *)
_emit(e) == <<OpWrite(e), OpFlush>>

(* _emit(error); _write_done_sentinel(); sys.exit(1) *)
FailText(text, path) == _emit(ErrorText(text)) \o <<OpSentinel, OpExit(1, path)>>
FailWith(msg, path) == FailText(Str(msg), path)

---------------------------------------------------------------------------
(* The output sink: a line-buffered text file (open(..., "w", buffering=1))*)
(* or stdout, whose text layer keeps written lines pending until flush().  *)
WriteSink(o, b, e, lineBuffered) ==
    IF lineBuffered THEN <<o \o b \o <<e>>, <<>>>> ELSE <<o, Append(b, e)>>

FlushSink(o, b) == <<o \o b, <<>>>>

(* _write_done_sentinel(): touches .done only when _done_file is set. *)
_write_done_sentinel(d, fileOutput) == d \/ fileOutput

---------------------------------------------------------------------------
(* Values of the config's "binary" field: absent, a name with blanks       *)
(* around it.                                                              *)
Binaries == {<<>>, <<" ", "my-codex", " ">>}

(* proc.returncode and the text proc.stderr.read() returns. *)
Child(returncode, stderr) == [returncode |-> returncode, stderr |-> stderr]
NoChild == Child(0, <<>>)

(* The child as the pipes show it: prog is what it has still to write      *)
(* ("err": a chunk to stderr, else a line to stdout), stdout the lines in  *)
(* the stdout pipe, stderr the chunks in the stderr pipe, alive whether it *)
(* still runs (its ends of the pipes are open), returncode what it exits   *)
(* with.                                                                   *)
ChildProcess(prog, returncode) ==
    [prog |-> prog, stdout |-> <<>>, stderr |-> 0, alive |-> TRUE,
     returncode |-> returncode]
(* No child followed through its pipes. *)
NoPipe == [ChildProcess(<<>>, 0) EXCEPT !.alive = FALSE]

(* No helper applied on its own. *)
NoCall == [kind |-> "none", arg |-> <<>>, applied |-> FALSE, out |-> <<>>]

Init ==
    /\ variant \in {"sdk", "cli"}
    /\ outputFile \in BOOLEAN
    /\ stdinKind \in StdinKinds
    /\ pc = "install"
    /\ todo = <<>>
    /\ handlerInstalled = FALSE
    /\ shutting_down = FALSE
    /\ hstack = <<>>
    /\ sigCount = 0
    /\ sigStage = ""
    /\ out = <<>>
    /\ buf = <<>>
    /\ produced = <<>>
    /\ done = FALSE
    /\ exited = FALSE
    /\ exitCode = 0
    /\ exitPath = ""
    /\ iteration = 0
    /\ tokens = 0
    /\ last_answer = ""
    /\ nread = 0
    /\ backendStarted = FALSE
    /\ nsuppressed = 0
    /\ ncallbacks = 0
    /\ binary \in (IF variant = "cli" /\ stdinKind = "valid" THEN Binaries ELSE {<<>>})
    /\ child = NoChild
    /\ fn = NoCall
    /\ sinkBroken = FALSE
    /\ pipe = NoPipe

(* The main flow runs only while no handler frame is active. *)
MainRuns == ~exited /\ hstack = <<>>
AtPc(p) == MainRuns /\ todo = <<>> /\ pc = p

---------------------------------------------------------------------------
(* Queued statements of the main flow.                                     *)
MainEmitWrite ==
    /\ MainRuns /\ todo # <<>> /\ Head(todo).op = "write"
    /\ LET r == WriteSink(out, buf, Head(todo).ev, outputFile)
       IN /\ out' = r[1]
          /\ buf' = r[2]
    /\ produced' = Append(produced, Head(todo).ev)
    /\ todo' = Tail(todo)
    /\ UNCHANGED <<cfgVars, auxVars, pc, sigVars, procVars, runVars>>

MainEmitFlush ==
    /\ MainRuns /\ todo # <<>> /\ Head(todo).op = "flush"
    /\ LET r == FlushSink(out, buf)
       IN /\ out' = r[1]
          /\ buf' = r[2]
    /\ todo' = Tail(todo)
    /\ UNCHANGED <<cfgVars, auxVars, pc, sigVars, procVars, runVars, produced>>

MainWriteDoneSentinel ==
    /\ MainRuns /\ todo # <<>> /\ Head(todo).op = "sentinel"
    /\ done' = _write_done_sentinel(done, outputFile)
    /\ todo' = Tail(todo)
    /\ UNCHANGED <<cfgVars, auxVars, pc, sigVars, sinkVars, runVars, exited, exitCode, exitPath>>

(* sys.exit(code), or falling off the end of main: the interpreter flushes *)
(* the sink while it shuts down.                                           *)
MainExit ==
    /\ MainRuns /\ todo # <<>> /\ Head(todo).op = "exit"
    /\ exited' = TRUE
    /\ exitCode' = Head(todo).code
    /\ exitPath' = Head(todo).path
    /\ LET r == FlushSink(out, buf)
       IN /\ out' = r[1]
          /\ buf' = r[2]
    /\ todo' = <<>>
    /\ pc' = "exited"
    /\ UNCHANGED <<cfgVars, auxVars, sigVars, runVars, produced, done>>

---------------------------------------------------------------------------
(* Config intake (both bridges).                                           *)

(* signal.signal(signal.SIGTERM, _sigterm_handler); everything before it   *)
(* (argument parsing, opening the sink) ran with the default disposition.  *)
InstallHandler ==
    /\ AtPc("install")
    /\ handlerInstalled' = TRUE
    /\ pc' = "readline"
    /\ UNCHANGED <<cfgVars, auxVars, todo, shutting_down, hstack, sigCount, sigStage,
                   sinkVars, procVars, runVars>>

(* raw = sys.stdin.readline() *)
ReadStdin ==
    /\ AtPc("readline")
    /\ pc' = "check_empty"
    /\ UNCHANGED <<cfgVars, auxVars, todo, sigVars, sinkVars, procVars, runVars>>

(* if not raw.strip(): ... *)
CheckEmpty ==
    /\ AtPc("check_empty")
    /\ IF stdinKind = "empty"
       THEN /\ todo' = FailWith("empty config on stdin", "config_error")
            /\ pc' = pc
       ELSE /\ todo' = todo
            /\ pc' = "parse"
    /\ UNCHANGED <<cfgVars, auxVars, sigVars, sinkVars, procVars, runVars>>

(* cfg = json.loads(raw), guarded by except json.JSONDecodeError *)
ParseConfig ==
    /\ AtPc("parse")
    /\ IF stdinKind = "badjson"
       THEN /\ todo' = FailWith("invalid config JSON", "config_error")
            /\ pc' = pc
       ELSE /\ todo' = todo
            /\ pc' = "validate"
    /\ UNCHANGED <<cfgVars, auxVars, sigVars, sinkVars, procVars, runVars>>

(* cfg.get(...) on a JSON value that is no object raises AttributeError     *)
(* outside every try block.                                                *)
ConfigIsObject(kind) == kind # "nonobject"

(* The prompt check left out. *)
PromptMissingNeverChecked(kind) == FALSE

(* prompt = cfg.get("prompt", ""); if not prompt: ... *)
PromptMissing(kind) == kind = "noprompt"

(* The statements between json.loads and the backend run: reading the      *)
(* config fields, building the options / the command, the prompt check.    *)
ValidateConfig ==
    /\ AtPc("validate")
    /\ IF ~ConfigIsObject(stdinKind)
       THEN /\ todo' = <<OpExit(1, "unhandled")>>
            /\ pc' = pc
       ELSE IF PromptMissing(stdinKind)
       THEN /\ todo' = FailWith("prompt is required", "config_error")
            /\ pc' = pc
       ELSE /\ todo' = todo
            /\ pc' = IF variant = "cli" THEN "spawn" ELSE "connect"
    /\ UNCHANGED <<cfgVars, auxVars, sigVars, sinkVars, procVars, runVars>>

---------------------------------------------------------------------------
(* The lifecycle supervisor: _sigterm_handler.                             *)

IsTerminal(e) == e.type \in {"result", "error"}
HasTerminal(s) == \E i \in 1..Len(s) : IsTerminal(s[i])

(* Where the main flow stands (used to record when a signal arrived). *)
Stage ==
    IF HasTerminal(produced) THEN "after_terminal"
    ELSE IF pc = "readline" THEN "stdin"
    ELSE IF pc \in {"check_empty", "parse", "validate"} THEN "validation"
    ELSE "backend"

(* SIGTERM while the handler is installed: Python enters the handler       *)
(* between two bytecodes of whatever is running, the handler included.     *)
SigtermDelivered ==
    /\ ~exited /\ handlerInstalled /\ sigCount < MaxSignals
    /\ hstack' = Append(hstack, "h_check")
    /\ sigCount' = sigCount + 1
    /\ sigStage' = IF sigStage = "" THEN Stage ELSE sigStage
    /\ UNCHANGED <<cfgVars, auxVars, pc, todo, handlerInstalled, shutting_down,
                   sinkVars, procVars, runVars>>

(* SIGTERM before signal.signal() ran: the default disposition kills the   *)
(* process; nothing is written and nothing is flushed.                     *)
SigtermDefault ==
    /\ ~exited /\ ~handlerInstalled /\ sigCount < MaxSignals
    /\ sigCount' = sigCount + 1
    /\ exited' = TRUE
    /\ exitCode' = 0 - SIGTERM
    /\ exitPath' = "killed"
    /\ UNCHANGED <<cfgVars, auxVars, pc, todo, handlerInstalled, shutting_down, hstack,
                   sigStage, sinkVars, done, runVars>>

HandlerAt(p) == ~exited /\ hstack # <<>> /\ hstack[Len(hstack)] = p
SetTop(p) == [hstack EXCEPT ![Len(hstack)] = p]
Pop == SubSeq(hstack, 1, Len(hstack) - 1)

(* The idempotency guard left out. *)
GuardPassesAlways(flag) == TRUE

(* if _shutting_down: return *)
GuardPasses(flag) == ~flag

HandlerCheck ==
    /\ HandlerAt("h_check")
    /\ hstack' = IF GuardPasses(shutting_down) THEN SetTop("h_set") ELSE Pop
    /\ UNCHANGED <<cfgVars, auxVars, pc, todo, handlerInstalled, shutting_down, sigCount,
                   sigStage, sinkVars, procVars, runVars>>

(* _shutting_down = True *)
HandlerSet ==
    /\ HandlerAt("h_set")
    /\ shutting_down' = TRUE
    /\ hstack' = SetTop("h_write")
    /\ UNCHANGED <<cfgVars, auxVars, pc, todo, handlerInstalled, sigCount, sigStage,
                   sinkVars, procVars, runVars>>

(* The handler writing to the descriptor under the text layer. *)
HandlerSinkBypassesBuffer(o, b, e, lineBuffered) == <<Append(o, e), b>>

(* The sink call of the handler's _emit: the same text layer as the main   *)
(* flow's.                                                                 *)
HandlerSink(o, b, e, lineBuffered) == WriteSink(o, b, e, lineBuffered)

(* A sink that rejects data: write() on the line-buffered file raises at   *)
(* once (the line is flushed by the write), write() on stdout only fills   *)
(* the text buffer; flush() raises when there is something to flush.       *)
WriteRaises(broken, lineBuffered) == broken /\ lineBuffered
FlushRaises(broken, b) == broken /\ b # <<>>

(* _emit({"type": "error", "message": "bridge terminated by signal"}).  An *)
(* exception leaves the try block for the finally clause.                  *)
HandlerEmitWrite ==
    /\ HandlerAt("h_write")
    /\ LET r == IF sinkBroken THEN <<out, Append(buf, SignalError)>>
                ELSE HandlerSink(out, buf, SignalError, outputFile)
       IN /\ out' = r[1]
          /\ buf' = r[2]
    /\ produced' = Append(produced, SignalError)
    /\ hstack' = SetTop(IF WriteRaises(sinkBroken, outputFile) THEN "h_exit"
                        ELSE "h_flush")
    /\ UNCHANGED <<cfgVars, auxVars, pc, todo, handlerInstalled, shutting_down, sigCount,
                   sigStage, procVars, runVars>>

HandlerEmitFlush ==
    /\ HandlerAt("h_flush")
    /\ LET r == IF sinkBroken THEN <<out, buf>> ELSE FlushSink(out, buf)
       IN /\ out' = r[1]
          /\ buf' = r[2]
    /\ hstack' = SetTop(IF FlushRaises(sinkBroken, buf) THEN "h_exit"
                        ELSE "h_sentinel")
    /\ UNCHANGED <<cfgVars, auxVars, pc, todo, handlerInstalled, shutting_down, sigCount,
                   sigStage, produced, procVars, runVars>>

(* The handler leaving the sentinel out. *)
HandlerSentinelSkipped(d, fileOutput) == d

(* _write_done_sentinel() inside the handler *)
HandlerSentinel(d, fileOutput) == _write_done_sentinel(d, fileOutput)

HandlerWriteDoneSentinel ==
    /\ HandlerAt("h_sentinel")
    /\ done' = HandlerSentinel(done, outputFile)
    /\ hstack' = SetTop("h_exit")
    /\ UNCHANGED <<cfgVars, auxVars, pc, todo, handlerInstalled, shutting_down, sigCount,
                   sigStage, sinkVars, exited, exitCode, exitPath, runVars>>

(* finally: sys.exit(128 + signum).  SystemExit unwinds every handler frame *)
(* and the main flow (except Exception does not catch it).                 *)
HandlerExitCode(signum) == 128 + signum

(* The status the process ends with: the interpreter flushes stdout while  *)
(* it shuts down, and when that flush fails the status is 120 whatever     *)
(* SystemExit carried.  A file sink that cannot be flushed is dropped      *)
(* without a change of status.                                             *)
ExitStatus(code, stdoutFlushFails) == IF stdoutFlushFails THEN 120 ELSE code

HandlerExit ==
    /\ HandlerAt("h_exit")
    /\ exited' = TRUE
    /\ exitCode' = ExitStatus(HandlerExitCode(SIGTERM),
                              ~outputFile /\ FlushRaises(sinkBroken, buf))
    /\ exitPath' = "sigterm"
    /\ LET r == IF sinkBroken THEN <<out, buf>> ELSE FlushSink(out, buf)
       IN /\ out' = r[1]
          /\ buf' = r[2]
    /\ UNCHANGED <<cfgVars, auxVars, pc, todo, sigVars, produced, done, runVars>>

---------------------------------------------------------------------------
(* Backend driver, CLI variant (codex_bridge.py).                          *)

(* _SKIP_TOOLS of codex_bridge.py *)
Codex_SKIP_TOOLS == {"read", "glob", "grep", "webfetch", "web_fetch"}

(* str.lower() on the tool names the model uses *)
Lower(s) ==
    CASE s = "Read" -> "read"
      [] s = "GREP" -> "grep"
      [] s = "WebFetch" -> "webfetch"
      [] s = "PLAN" -> "plan"
      [] s = "Full" -> "full"
      [] s = "Write" -> "write"
      [] OTHER -> s

(* The suppress-list matched as written, case and all. *)
IsSuppressedCaseSensitive(tool_name) == tool_name \in Codex_SKIP_TOOLS

_is_suppressed(tool_name) == Lower(tool_name) \in Codex_SKIP_TOOLS

(* One line of the child's stdout.  kind: "blank", "badjson", "nonobject"  *)
(* (valid JSON, no object), or the event's type.  item: the inner item's   *)
(* type ("#bad": the item / usage field is no object).  arg: the tool /    *)
(* text of the item ("#bad": a command that is no string); input_tokens,   *)
(* output_tokens: the counts of a turn's usage (Absent: the key is         *)
(* missing); cmd: the command text.                                        *)
Absent == 0 - 1

Line(kind, item, arg, tok) ==
    [kind |-> kind, item |-> item, arg |-> arg, input_tokens |-> tok,
     output_tokens |-> Absent, cmd |-> <<>>]

(* An item.started of a command execution whose command is the text cmd. *)
CommandLine(cmd) ==
    [Line("item.started", "command_execution", "", Absent) EXCEPT !.cmd = cmd]

(* A turn.completed with the usage counts given. *)
TurnLine(input_tokens, output_tokens) ==
    [Line("turn.completed", "", "", input_tokens) EXCEPT
        !.output_tokens = output_tokens]

(* usage.get(key, 0) *)
UsageGet(count) == IF count = Absent THEN 0 ELSE count

CliLines ==
    { Line("blank", "", "", Absent), Line("badjson", "", "", Absent),
      Line("nonobject", "", "", Absent), Line("thread.started", "", "", Absent),
      CommandLine(<<"l", "s">>),
      Line("item.started", "command_execution", "#bad", Absent),
      Line("item.started", "mcpToolCall", "Read", Absent),
      Line("item.started", "mcpToolCall", "deploy", Absent),
      Line("item.started", "reasoning", "", Absent),
      Line("item.completed", "agent_message", "", Absent),
      Line("item.completed", "agent_message", "a", Absent),
      Line("item.completed", "agent_message", "b", Absent),
      TurnLine(Absent, Absent),
      TurnLine(1, 1),
      TurnLine(Absent, 2),
      Line("turn.completed", "#bad", "", Absent) }

SummaryLimit == 120

(* The summary marking the cut with an ellipsis. *)
CommandSummaryEllipsis(cmd) ==
    Str("command=") \o (IF Len(cmd) > SummaryLimit
                        THEN Slice(cmd, SummaryLimit) \o Str("...")
                        ELSE cmd)

(* f"command={cmd[:120]}" if len(cmd) > 120 else f"command={cmd}" *)
CommandSummary(cmd) ==
    Str("command=") \o (IF Len(cmd) > SummaryLimit THEN Slice(cmd, SummaryLimit)
                        ELSE cmd)

ShellPrefix == <<"/", "b", "i", "n", "/">>
LcFlag == <<" ", "-", "l", "c", " ">>

(* if cmd.startswith("/bin/") and " -lc " in cmd:                          *)
(*     cmd = cmd[cmd.index(" -lc ") + 5:].strip().strip('"')               *)
StripShellWrapper(cmd) ==
    IF StartsWith(cmd, ShellPrefix) /\ Occurrences(cmd, LcFlag) # {}
    THEN LET at == CHOOSE i \in Occurrences(cmd, LcFlag) :
                      \A j \in Occurrences(cmd, LcFlag) : i <= j
         IN StripQuotes(Strip(SubSeq(cmd, at + Len(LcFlag), Len(cmd))))
    ELSE cmd

(* What one step of the run leaves behind: the counters, the events to     *)
(* emit, and whether an exception was raised.                              *)
Step(it, tok, ans, evs, exc) ==
    [iteration |-> it, tokens |-> tok, answer |-> ans, emit |-> evs, raise |-> exc]

(* _handle_item_started counting a suppressed tool call, as the SDK hook   *)
(* does.                                                                   *)
HandleItemStartedCountsSuppressed(item, it) ==
    IF item.item = "command_execution"
    THEN IF item.arg = "#bad"
         THEN [iteration |-> it + 1, emit |-> <<>>, raise |-> TRUE]
         ELSE [iteration |-> it + 1,
               emit |-> _emit(ToolEvent(Str("Bash"),
                                        CommandSummary(StripShellWrapper(item.cmd)),
                                        it + 1)),
               raise |-> FALSE]
    ELSE IF item.item = "mcpToolCall"
    THEN IF ~_is_suppressed(item.arg)
         THEN [iteration |-> it + 1, emit |-> _emit(ToolEvent(Str(item.arg), <<>>, it + 1)),
               raise |-> FALSE]
         ELSE [iteration |-> it + 1, emit |-> <<>>, raise |-> FALSE]
    ELSE [iteration |-> it, emit |-> <<>>, raise |-> FALSE]

(* _handle_item_started(item, iteration) *)
_handle_item_started(item, it) ==
    IF item.item = "command_execution"
    THEN IF item.arg = "#bad"
         THEN [iteration |-> it + 1, emit |-> <<>>, raise |-> TRUE]
         ELSE [iteration |-> it + 1,
               emit |-> _emit(ToolEvent(Str("Bash"),
                                        CommandSummary(StripShellWrapper(item.cmd)),
                                        it + 1)),
               raise |-> FALSE]
    ELSE IF item.item = "mcpToolCall"
    THEN IF ~_is_suppressed(item.arg)
         THEN [iteration |-> it + 1, emit |-> _emit(ToolEvent(Str(item.arg), <<>>, it + 1)),
               raise |-> FALSE]
         ELSE [iteration |-> it, emit |-> <<>>, raise |-> FALSE]
    ELSE [iteration |-> it, emit |-> <<>>, raise |-> FALSE]

(* An item.started for an external tool call the suppress-list names. *)
SuppressedCall(line) ==
    line.kind = "item.started" /\ line.item = "mcpToolCall" /\ _is_suppressed(line.arg)

(* Every agent message overwriting the candidate, an empty one too. *)
RecordAnswerAlways(text, ans) == text

(* text = item.get("text", ""); if text: last_answer = text *)
RecordAnswer(text, ans) == IF text # "" THEN text ELSE ans

(* Only the input tokens accumulated. *)
AddUsageInputOnly(tok, line) == tok + UsageGet(line.input_tokens)

(* total_input_tokens += usage.get("input_tokens", 0);                     *)
(* total_output_tokens += usage.get("output_tokens", 0)                    *)
AddUsage(tok, line) ==
    tok + UsageGet(line.input_tokens) + UsageGet(line.output_tokens)

(* The body of "for line in proc.stdout" for one line. *)
CliLineStep(line, it, tok, ans) ==
    IF line.kind \in {"blank", "badjson"} THEN Step(it, tok, ans, <<>>, FALSE)
    ELSE IF line.kind = "nonobject" THEN Step(it, tok, ans, <<>>, TRUE)
    ELSE IF line.kind = "item.started"
    THEN LET r == _handle_item_started(line, it)
         IN Step(r.iteration, tok, ans, r.emit, r.raise)
    ELSE IF line.kind = "item.completed"
    THEN IF line.item = "agent_message"
         THEN Step(it, tok, RecordAnswer(line.arg, ans), <<>>, FALSE)
         ELSE Step(it, tok, ans, <<>>, FALSE)
    ELSE IF line.kind = "turn.completed"
    THEN IF line.item = "#bad" THEN Step(it, tok, ans, <<>>, TRUE)
         ELSE Step(it, AddUsage(tok, line), ans, <<>>, FALSE)
    ELSE Step(it, tok, ans, <<>>, FALSE)

(* The except branch without its _write_done_sentinel(). *)
ExceptExceptionNoSentinel ==
    _emit(ErrorEvent("exception")) \o <<OpExit(1, "backend_exception")>>

(* except Exception as exc: _emit(error); _write_done_sentinel(); exit(1) *)
ExceptException == FailWith("exception", "backend_exception")

(* subprocess.Popen(cmd, ...) *)
(* The configured binary ignored. *)
CodexBinaryDefault(b) == Str("codex")

(* codex_binary = str(cfg.get("binary") or "codex").strip() or "codex" *)
codex_binary(b) ==
    LET t == Strip(IF b = <<>> THEN Str("codex") ELSE b)
    IN IF t = <<>> THEN Str("codex") ELSE t

Spawn ==
    /\ AtPc("spawn")
    /\ \E outcome \in {"ok", "FileNotFoundError", "OSError"} :
          CASE outcome = "ok" ->
                  /\ backendStarted' = TRUE
                  /\ pc' = "loop"
                  /\ todo' = todo
            [] outcome = "FileNotFoundError" ->
                  /\ todo' = FailText(Str("codex binary not found: ")
                                          \o codex_binary(binary), "spawn_failure")
                  /\ UNCHANGED <<pc, backendStarted>>
            [] outcome = "OSError" ->
                  /\ todo' = ExceptException
                  /\ UNCHANGED <<pc, backendStarted>>
    /\ UNCHANGED <<cfgVars, auxVars, sigVars, sinkVars, procVars, iteration, tokens,
                   last_answer, nread, nsuppressed, ncallbacks>>

(* The body of "for line in proc.stdout" for one line. *)
LoopBody(line) ==
    /\ LET r == CliLineStep(line, iteration, tokens, last_answer)
       IN /\ iteration' = r.iteration
          /\ tokens' = r.tokens
          /\ last_answer' = r.answer
          /\ todo' = IF r.raise THEN ExceptException ELSE r.emit
          /\ nsuppressed' = nsuppressed + (IF SuppressedCall(line) THEN 1 ELSE 0)
    /\ nread' = nread + 1
    /\ UNCHANGED <<auxVars, pc, sigVars, sinkVars, procVars, backendStarted,
                   ncallbacks>>

(* One iteration of "for line in proc.stdout". *)
ReadLineOf(line) ==
    /\ AtPc("loop") /\ nread < MaxUpstream
    /\ LoopBody(line)
    /\ UNCHANGED cfgVars

ReadLine == \E line \in CliLines : ReadLineOf(line)

(* The child closed its stdout: the loop ends. *)
EndOfStream ==
    /\ AtPc("loop")
    /\ pc' = "wait"
    /\ UNCHANGED <<cfgVars, auxVars, todo, sigVars, sinkVars, procVars, runVars>>

(* What follows proc.wait() for a return code: the error branch of a       *)
(* non-zero code, else the final result and the sentinel.                  *)
StderrLimit == 400

(* f"codex exited with code {proc.returncode}: {stderr[:400]}" *)
ChildErrorMessage(returncode, stderr) ==
    Str("codex exited with code ") \o IntStr(returncode) \o Str(": ")
        \o Slice(stderr, StderrLimit)

(* The result written whatever the return code. *)
AfterWaitResultAlways(c, ans, tok, it) ==
    _emit(ResultEvent(ans, tok, it, FALSE)) \o <<OpSentinel, OpExit(0, "normal")>>

(* The error branch reporting the whole of stderr. *)
AfterWaitWholeStderr(c, ans, tok, it) ==
    IF c.returncode # 0
    THEN _emit(ErrorText(Str("codex exited with code ") \o IntStr(c.returncode)
                            \o Str(": ") \o c.stderr))
            \o <<OpExit(1, "child_nonzero")>>
    ELSE _emit(ResultEvent(ans, tok, it, FALSE)) \o <<OpSentinel, OpExit(0, "normal")>>

AfterWait(c, ans, tok, it) ==
    IF c.returncode # 0
    THEN _emit(ErrorText(ChildErrorMessage(c.returncode, c.stderr)))
            \o <<OpExit(1, "child_nonzero")>>
    ELSE _emit(ResultEvent(ans, tok, it, FALSE)) \o <<OpSentinel, OpExit(0, "normal")>>

(* How the child can have ended: its return code and what it left on       *)
(* stderr (nothing, exactly the limit, one character more).                *)
ChildOutcomes ==
    { Child(0, <<>>), Child(1, <<>>), Child(1, Text(StderrLimit + 1)),
      Child(2, Text(StderrLimit)) }

Wait ==
    /\ AtPc("wait")
    /\ \E c \in ChildOutcomes :
          /\ child' = c
          /\ todo' = AfterWait(c, last_answer, tokens, iteration)
    /\ UNCHANGED <<cfgVars, fn, pc, sigVars, sinkVars, procVars, runVars>>

---------------------------------------------------------------------------
(* Backend driver, SDK variant (cc_bridge.py).                             *)

_CORE_TOOLS == {"Write", "Edit", "Bash", "WebSearch", "NotebookEdit"}

(* _SKIP_TOOLS of cc_bridge.py *)
Cc_SKIP_TOOLS ==
    {"Read", "Glob", "Grep", "WebFetch", "Skill", "Task", "TaskCreate",
     "TaskUpdate", "TaskList", "TaskGet", "TaskStop", "TaskOutput"}

_base_name(tool_name) == Strip(BeforeParen(tool_name))

(* The policy failing closed: only core tools are forwarded. *)
IsCoreFailClosed(tool_name) == \E t \in _CORE_TOOLS : _base_name(tool_name) = Str(t)

_is_core(tool_name) ==
    LET base == _base_name(tool_name)
    IN IF \E t \in _CORE_TOOLS : base = Str(t) THEN TRUE
       ELSE IF \E t \in Cc_SKIP_TOOLS : base = Str(t) THEN FALSE
       ELSE TRUE

SdkToolNames ==
    { <<"Bash", "(", "git *", ")">>, <<"Read">>, <<"Deploy">> }

(* What the client hands to the main flow: a PostToolUse callback, a       *)
(* ResultMessage, another message, or an exception.                        *)
Msg(kind, tool, tok, err) ==
    [kind |-> kind, tool |-> tool, tok |-> tok, err |-> err, args |-> <<>>]

(* tool_input: a dict, kept as its items in insertion order. *)
Arg(k, v) == [k |-> k, v |-> v]

(* args.get(key, "") *)
ArgGet(args, key) ==
    IF \E i \in 1..Len(args) : args[i].k = key
    THEN args[CHOOSE i \in 1..Len(args) : args[i].k = key].v
    ELSE <<>>

(* A PostToolUse callback for tool with input args. *)
HookMsg(tool, args) ==
    [kind |-> "hook", tool |-> tool, tok |-> 0, err |-> FALSE, args |-> args]

(* The input the model gives each tool: a command for Bash, none else. *)
SdkToolInput(tool) ==
    IF BeforeParen(tool) = Str("Bash") THEN <<Arg("command", <<"l", "s">>)>> ELSE <<>>

SdkMessages ==
    { HookMsg(t, SdkToolInput(t)) : t \in SdkToolNames }
    \cup { Msg("result", <<>>, 2, e) : e \in BOOLEAN }
    \cup { Msg("other", <<>>, 0, FALSE), Msg("raise", <<>>, 0, FALSE) }

(* ", ".join(f"{k}=..." for k in keys) *)
RECURSIVE JoinKeys(_)
JoinKeys(keys) ==
    IF keys = <<>> THEN <<>>
    ELSE IF Len(keys) = 1 THEN <<Head(keys), "=...">>
    ELSE <<Head(keys), "=...", ", ">> \o JoinKeys(Tail(keys))

(* _trim_args(tool_name, args) *)
_trim_args(tool_name, args) ==
    LET base == _base_name(tool_name)
        cmd == ArgGet(args, "command")
    IN IF base \in {Str("Write"), Str("Edit")}
       THEN Str("file_path=") \o ArgGet(args, "file_path")
       ELSE IF base = Str("Bash")
       THEN Str("command=") \o (IF Len(cmd) > SummaryLimit
                                THEN Slice(cmd, SummaryLimit) ELSE cmd)
       ELSE IF base = Str("WebSearch") THEN Str("query=") \o ArgGet(args, "query")
       ELSE IF base = Str("NotebookEdit")
       THEN Str("notebook=") \o ArgGet(args, "notebook_path")
       ELSE JoinKeys([i \in 1..(IF Len(args) < 3 THEN Len(args) ELSE 3) |-> args[i].k])

(* _extract_files(args): the non-empty values of file_path, path and       *)
(* notebook_path, in that order.                                           *)
_extract_files(args) ==
    LET keys == <<"file_path", "path", "notebook_path">>
        held(k) == ArgGet(args, k) # <<>>
    IN [i \in 1..Len(SelectSeq(keys, held)) |-> ArgGet(args, SelectSeq(keys, held)[i])]

(* _post_tool_hook counting forwarded invocations only, as the CLI does. *)
PostToolHookCountsForwardedOnly(name, args, it) ==
    IF _is_core(name)
    THEN [iteration |-> it + 1,
          emit |-> _emit(WithFiles(ToolEvent(name, _trim_args(name, args), it + 1),
                                   _extract_files(args))),
          raise |-> FALSE]
    ELSE [iteration |-> it, emit |-> <<>>, raise |-> FALSE]

(* _post_tool_hook(input_data, ...) *)
_post_tool_hook(name, args, it) ==
    [iteration |-> it + 1,
     emit |-> IF _is_core(name)
              THEN _emit(WithFiles(ToolEvent(name, _trim_args(name, args), it + 1),
                                   _extract_files(args)))
              ELSE <<>>,
     raise |-> FALSE]

(* A callback for a tool of the suppress-set. *)
SuppressedHook(m) == m.kind = "hook" /\ ~_is_core(m.tool)

(* One message of "async for message in client.receive_response()", or one *)
(* hook callback run by the client meanwhile.                              *)
SdkMessageStep(m, it) ==
    IF m.kind = "hook" THEN _post_tool_hook(m.tool, m.args, it)
    ELSE IF m.kind = "result"
    THEN [iteration |-> it, emit |-> _emit(ResultEvent("answer", m.tok, it, m.err)),
          raise |-> FALSE]
    ELSE IF m.kind = "raise" THEN [iteration |-> it, emit |-> <<>>, raise |-> TRUE]
    ELSE [iteration |-> it, emit |-> <<>>, raise |-> FALSE]

(* async with ClaudeSDKClient(opts) as client: the connect may raise. *)
Connect ==
    /\ AtPc("connect")
    /\ backendStarted' = TRUE
    /\ \E ok \in BOOLEAN :
          IF ok THEN pc' = "query" /\ todo' = todo
          ELSE pc' = pc /\ todo' = ExceptException
    /\ UNCHANGED <<cfgVars, auxVars, sigVars, sinkVars, procVars, iteration, tokens,
                   last_answer, nread, nsuppressed, ncallbacks>>

(* await client.query(prompt) *)
Query ==
    /\ AtPc("query")
    /\ \E ok \in BOOLEAN :
          IF ok THEN pc' = "recv" /\ todo' = todo
          ELSE pc' = pc /\ todo' = ExceptException
    /\ UNCHANGED <<cfgVars, auxVars, sigVars, sinkVars, procVars, runVars>>

Receive ==
    /\ AtPc("recv") /\ nread < MaxUpstream
    /\ \E m \in SdkMessages :
          LET r == SdkMessageStep(m, iteration)
          IN /\ iteration' = r.iteration
             /\ todo' = IF r.raise THEN ExceptException ELSE r.emit
             /\ nsuppressed' = nsuppressed + (IF SuppressedHook(m) THEN 1 ELSE 0)
             /\ ncallbacks' = ncallbacks + (IF m.kind = "hook" THEN 1 ELSE 0)
    /\ nread' = nread + 1
    /\ UNCHANGED <<cfgVars, auxVars, pc, sigVars, sinkVars, procVars, tokens, last_answer,
                   backendStarted>>

(* receive_response() is exhausted. *)
EndOfResponse ==
    /\ AtPc("recv")
    /\ pc' = "close"
    /\ UNCHANGED <<cfgVars, auxVars, todo, sigVars, sinkVars, procVars, runVars>>

(* Leaving the async with block (the client disconnects, which may raise), *)
(* then the final _write_done_sentinel() and the return from main.         *)
Close ==
    /\ AtPc("close")
    /\ \E ok \in BOOLEAN :
          todo' = IF ok THEN <<OpSentinel, OpExit(0, "normal")>> ELSE ExceptException
    /\ UNCHANGED <<cfgVars, auxVars, pc, sigVars, sinkVars, procVars, runVars>>

---------------------------------------------------------------------------
Next ==
    \/ InstallHandler
    \/ ReadStdin
    \/ CheckEmpty
    \/ ParseConfig
    \/ ValidateConfig
    \/ MainEmitWrite
    \/ MainEmitFlush
    \/ MainWriteDoneSentinel
    \/ MainExit
    \/ SigtermDelivered
    \/ SigtermDefault
    \/ HandlerCheck
    \/ HandlerSet
    \/ HandlerEmitWrite
    \/ HandlerEmitFlush
    \/ HandlerWriteDoneSentinel
    \/ HandlerExit
    \/ Spawn
    \/ ReadLine
    \/ EndOfStream
    \/ Wait
    \/ Connect
    \/ Query
    \/ Receive
    \/ EndOfResponse
    \/ Close

Spec == Init /\ [][Next]_vars

(* The runs in which the host, having sent SIGTERM, stops taking output:   *)
(* the reader of the stdout pipe is gone, or the output file takes no more *)
(* data.  From then on only handler frames run (the first one ends in      *)
(* sys.exit), so the main flow never writes to the broken sink.            *)
SinkBreaks ==
    /\ ~exited /\ hstack # <<>> /\ ~sinkBroken
    /\ sinkBroken' = TRUE
    /\ UNCHANGED <<variant, outputFile, stdinKind, binary, pipe, auxVars, pc,
                   todo, sigVars, sinkVars, procVars, runVars>>

FaultNext == Next \/ SinkBreaks

FaultSpec == Init /\ [][FaultNext]_vars

---------------------------------------------------------------------------
(* The CLI bridge and its child, joined by the two pipes of                *)
(* Popen(stdout=PIPE, stderr=PIPE).  A pipe holds a bounded amount; a      *)
(* writer blocks while it is full, a reader blocks while it is empty and   *)
(* the write end is open.  The bridge reads stdout line by line until end  *)
(* of stream, waits for the child, and reads stderr only then.             *)

MaxChildOps == 3      \* writes in the child's program
PipeCapacity == 2     \* writes a pipe holds before the writer blocks

PipeOps == {"tool", "msg", "err"}
ChildPrograms == UNION {[1..n -> PipeOps] : n \in 0..MaxChildOps}

(* The stdout line of a write. *)
PipeLine(op) ==
    IF op = "tool" THEN CommandLine(<<"l", "s">>)
    ELSE Line("item.completed", "agent_message", "a", Absent)

(* The state after Popen returned for a valid config. *)
PipeInit ==
    /\ pipe \in { ChildProcess(p, rc) : p \in ChildPrograms, rc \in 0..1 }
    /\ variant = "cli"
    /\ outputFile \in BOOLEAN
    /\ stdinKind = "valid"
    /\ binary = <<>>
    /\ sinkBroken = FALSE
    /\ pc = "loop"
    /\ todo = <<>>
    /\ handlerInstalled = TRUE
    /\ shutting_down = FALSE
    /\ hstack = <<>>
    /\ sigCount = 0
    /\ sigStage = ""
    /\ out = <<>>
    /\ buf = <<>>
    /\ produced = <<>>
    /\ done = FALSE
    /\ exited = FALSE
    /\ exitCode = 0
    /\ exitPath = ""
    /\ iteration = 0
    /\ tokens = 0
    /\ last_answer = ""
    /\ nread = 0
    /\ backendStarted = TRUE
    /\ nsuppressed = 0
    /\ ncallbacks = 0
    /\ child = NoChild
    /\ fn = NoCall

PipeFrame ==
    UNCHANGED <<variant, outputFile, stdinKind, binary, sinkBroken, auxVars, pc,
                todo, sigVars, sinkVars, procVars, runVars>>

(* The child writes a line to its stdout; it blocks while the pipe is full. *)
ChildWritesStdout ==
    /\ pipe.alive /\ pipe.prog # <<>> /\ Head(pipe.prog) # "err"
    /\ Len(pipe.stdout) < PipeCapacity
    /\ pipe' = [pipe EXCEPT !.prog = Tail(@),
                            !.stdout = Append(@, PipeLine(Head(pipe.prog)))]
    /\ PipeFrame

(* The child writes a chunk to its stderr; it blocks while the pipe is full. *)
ChildWritesStderr ==
    /\ pipe.alive /\ pipe.prog # <<>> /\ Head(pipe.prog) = "err"
    /\ pipe.stderr < PipeCapacity
    /\ pipe' = [pipe EXCEPT !.prog = Tail(@), !.stderr = @ + 1]
    /\ PipeFrame

(* The child has written everything and exits: its pipe ends close. *)
ChildExits ==
    /\ pipe.alive /\ pipe.prog = <<>>
    /\ pipe' = [pipe EXCEPT !.alive = FALSE]
    /\ PipeFrame

(* for line in proc.stdout: the next line, when the pipe holds one. *)
PipeReadLine ==
    /\ AtPc("loop") /\ pipe.stdout # <<>>
    /\ LoopBody(Head(pipe.stdout))
    /\ pipe' = [pipe EXCEPT !.stdout = Tail(@)]
    /\ UNCHANGED <<variant, outputFile, stdinKind, binary, sinkBroken>>

(* End of stream: the pipe is empty and its write end is closed. *)
PipeEndOfStream ==
    /\ AtPc("loop") /\ pipe.stdout = <<>> /\ ~pipe.alive
    /\ pc' = "wait"
    /\ UNCHANGED <<cfgVars, auxVars, todo, sigVars, sinkVars, procVars, runVars>>

(* proc.wait() returns once the child has exited; proc.stderr.read() in    *)
(* the non-zero branch then takes what the stderr pipe holds.              *)
PipeWait ==
    /\ AtPc("wait") /\ ~pipe.alive
    /\ child' = Child(pipe.returncode, [i \in 1..pipe.stderr |-> "e"])
    /\ todo' = AfterWait(child', last_answer, tokens, iteration)
    /\ UNCHANGED <<cfgVars, fn, pc, sigVars, sinkVars, procVars, runVars>>

PipeNext ==
    \/ ChildWritesStdout
    \/ ChildWritesStderr
    \/ ChildExits
    \/ PipeReadLine
    \/ PipeEndOfStream
    \/ PipeWait
    \/ MainEmitWrite
    \/ MainEmitFlush
    \/ MainWriteDoneSentinel
    \/ MainExit

(* Whichever of the two processes can run does run: the operating system   *)
(* schedules both.                                                         *)
PipeSpec == PipeInit /\ [][PipeNext]_vars /\ WF_vars(PipeNext)

---------------------------------------------------------------------------
(* The settings main derives from the config.                              *)

PlanDirective ==
    "[Plan Mode] Provide an implementation plan only. Do not modify files or execute destructive operations."

(* str(cfg.get(key, default) or default).strip().lower() *)
ModeOf(raw, default) ==
    LET t == Strip(IF raw = <<>> THEN Str(default) ELSE raw)
    IN [i \in 1..Len(t) |-> Lower(t[i])]

(* A config of the CLI bridge.  sandbox and approval_policy are "" when    *)
(* absent; execution_mode and autonomy_level are texts, <<>> when absent.  *)
CliCfg(prompt, execution_mode, autonomy_level, sandbox, approval_policy) ==
    [prompt |-> prompt, execution_mode |-> execution_mode,
     autonomy_level |-> autonomy_level, sandbox |-> sandbox,
     approval_policy |-> approval_policy]

(* The command line with the autonomy level consulted before the plan     *)
(* mode when no sandbox is configured.                                     *)
CliCommandLevelFirst(cfg) ==
    LET execution_mode == ModeOf(cfg.execution_mode, "execute")
        autonomy_level == ModeOf(cfg.autonomy_level, "controlled")
    IN [prompt |-> IF execution_mode = Str("plan")
                   THEN cfg.prompt \o Str(PlanDirective) ELSE cfg.prompt,
        sandbox |-> IF cfg.sandbox # "" THEN cfg.sandbox
                    ELSE IF autonomy_level = Str("full") THEN "danger-full-access"
                    ELSE IF execution_mode = Str("plan") THEN "read-only"
                    ELSE "",
        flags |-> IF cfg.approval_policy = "full-auto" THEN {"--full-auto"}
                  ELSE IF cfg.approval_policy = "dangerously-auto"
                  THEN {"--dangerously-bypass-approvals-and-sandbox"}
                  ELSE {}]

(* The command line main builds: the value of --sandbox ("" when the flag  *)
(* is not passed), the approval flags passed, and the prompt argument.     *)
CliCommand(cfg) ==
    LET execution_mode == ModeOf(cfg.execution_mode, "execute")
        autonomy_level == ModeOf(cfg.autonomy_level, "controlled")
        sandbox ==
            IF cfg.sandbox = "" /\ execution_mode = Str("plan") THEN "read-only"
            ELSE IF cfg.sandbox = "" /\ autonomy_level = Str("full")
            THEN "danger-full-access"
            ELSE cfg.sandbox
        approval ==
            IF cfg.approval_policy = "" /\ execution_mode = Str("plan") THEN "never"
            ELSE IF cfg.approval_policy = "" /\ autonomy_level = Str("full")
            THEN "never"
            ELSE cfg.approval_policy
    IN [prompt |-> IF execution_mode = Str("plan")
                   THEN cfg.prompt \o Str(PlanDirective) ELSE cfg.prompt,
        sandbox |-> sandbox,
        flags |-> IF approval = "full-auto" THEN {"--full-auto"}
                  ELSE IF approval = "dangerously-auto"
                  THEN {"--dangerously-bypass-approvals-and-sandbox"}
                  ELSE {}]

(* A config of the SDK bridge.  mode is "" when absent, allowed_tools is   *)
(* <<>> when absent or empty, permission_mcp_config is "" when absent.     *)
SdkCfg(prompt, execution_mode, mode, allowed_tools, permission_mcp_config) ==
    [prompt |-> prompt, execution_mode |-> execution_mode, mode |-> mode,
     allowed_tools |-> allowed_tools,
     permission_mcp_config |-> permission_mcp_config]

(* The options with the read/search list set in plan mode whatever the     *)
(* caller supplied.                                                        *)
SdkOptionsPlanListFixed(cfg) ==
    LET execution_mode == ModeOf(cfg.execution_mode, "execute")
        mode == IF execution_mode = Str("plan") THEN "autonomous"
                ELSE IF cfg.mode = "" THEN "interactive"
                ELSE cfg.mode
    IN [prompt |-> IF execution_mode = Str("plan")
                   THEN cfg.prompt \o Str(PlanDirective) ELSE cfg.prompt,
        permission_mode |-> IF mode = "autonomous" THEN "bypassPermissions"
                            ELSE "default",
        allowed_tools |->
            IF mode # "autonomous" THEN <<>>
            ELSE IF execution_mode = Str("plan")
            THEN <<"Read", "Glob", "Grep", "WebSearch">>
            ELSE cfg.allowed_tools,
        mcp_servers |-> IF mode # "autonomous" THEN cfg.permission_mcp_config
                        ELSE ""]

(* The options main sets and the prompt it sends.  allowed_tools <<>> and  *)
(* mcp_servers "": left unset.                                             *)
SdkOptions(cfg) ==
    LET execution_mode == ModeOf(cfg.execution_mode, "execute")
        mode == IF execution_mode = Str("plan") THEN "autonomous"
                ELSE IF cfg.mode = "" THEN "interactive"
                ELSE cfg.mode
    IN [prompt |-> IF execution_mode = Str("plan")
                   THEN cfg.prompt \o Str(PlanDirective) ELSE cfg.prompt,
        permission_mode |-> IF mode = "autonomous" THEN "bypassPermissions"
                            ELSE "default",
        allowed_tools |->
            IF mode # "autonomous" THEN <<>>
            ELSE IF cfg.allowed_tools # <<>> THEN cfg.allowed_tools
            ELSE IF execution_mode = Str("plan")
            THEN <<"Read", "Glob", "Grep", "WebSearch">>
            ELSE <<>>,
        mcp_servers |-> IF mode # "autonomous" THEN cfg.permission_mcp_config
                        ELSE ""]

---------------------------------------------------------------------------
(* The helpers applied on their own: one call, its argument drawn from a   *)
(* bounded set, its value kept in fn.                                      *)

MaxCmdLen == 122      \* characters of a command text

Call(kind, arg) == [kind |-> kind, arg |-> arg, applied |-> FALSE, out |-> <<>>]

(* /bin/zsh -lc "<cmd>" *)
Wrapped(cmd) ==
    <<"/", "b", "i", "n", "/", "z", "s", "h", " ", "-", "l", "c", " ", "\"">>
        \o cmd \o <<"\"">>

CommandTexts ==
    {Text(n) : n \in 0..MaxCmdLen} \cup {Wrapped(Text(n)) : n \in 0..MaxCmdLen}

Hints == { <<>>, <<"(", "git *", ")">>, <<" ", "(", "git *", ")">> }

ToolBases == _CORE_TOOLS \cup Cc_SKIP_TOOLS \cup {"Deploy", "read", "mcp__db__query"}

HookCalls ==
    { Call("hook", [name |-> Str("Bash") \o h, args |-> <<Arg("command", Text(n))>>,
                    it |-> 0]) : h \in Hints, n \in 0..MaxCmdLen }
    \cup
    { Call("hook", [name |-> Str(b) \o h,
                    args |-> <<Arg("file_path", Str("f")), Arg("query", Str("q"))>>,
                    it |-> i]) : b \in ToolBases, h \in Hints, i \in 0..1 }

(* Tool names of external tool calls, and item sub-kinds that are neither  *)
(* a command execution nor an external tool call.                          *)
ItemToolNames ==
    {"Read", "read", "GREP", "glob", "WebFetch", "web_fetch", "deploy", "Write"}
ItemKinds == {"reasoning", "agent_message", "file_change", ""}

ItemCalls ==
    { Call("item", [line |-> CommandLine(c), it |-> 0]) : c \in CommandTexts }
    \cup
    { Call("item", [line |-> l, it |-> i]) :
          l \in {x \in CliLines : x.kind = "item.started"}, i \in 0..1 }
    \cup
    { Call("item", [line |-> Line("item.started", "mcpToolCall", t, Absent),
                    it |-> i]) : t \in ItemToolNames, i \in 0..1 }
    \cup
    { Call("item", [line |-> Line("item.started", k, "", Absent), it |-> i]) :
          k \in ItemKinds, i \in 0..1 }

(* The try block of main from the loop on, for a child that writes the     *)
(* lines and then exits as c: the statements it runs, in order.            *)
RECURSIVE RunLines(_, _)
RunLines(lines, st) ==
    IF lines = <<>> \/ st.raise THEN st
    ELSE LET r == CliLineStep(Head(lines), st.iteration, st.tokens, st.answer)
         IN RunLines(Tail(lines),
                     Step(r.iteration, r.tokens, r.answer, st.emit \o r.emit, r.raise))

RunChild(lines, c) ==
    LET st == RunLines(lines, Step(0, 0, "", <<>>, FALSE))
    IN st.emit \o (IF st.raise THEN ExceptException
                   ELSE AfterWait(c, st.answer, st.tokens, st.iteration))

Streams == UNION {[1..n -> CliLines] : n \in 0..MaxUpstream}

RunCalls ==
    { Call("run", [lines |-> ls, child |-> c]) :
          ls \in Streams, c \in {Child(0, <<>>), Child(1, <<>>)} }

ModeTexts == { <<>>, <<"plan">>, <<" ", "PLAN">>, <<"execute">> }
LevelTexts == { <<>>, <<"full">>, <<"Full", " ">>, <<"controlled">> }

CliConfigCalls ==
    { Call("cli_config", CliCfg(Str("p"), m, l, s, a)) :
          m \in ModeTexts, l \in LevelTexts,
          s \in {"", "read-only", "workspace-write", "danger-full-access"},
          a \in {"", "never", "full-auto", "dangerously-auto"} }

SdkConfigCalls ==
    { Call("sdk_config", SdkCfg(Str("p"), m, md, t, c)) :
          m \in ModeTexts, md \in {"", "interactive", "autonomous", "Autonomous"},
          t \in {<<>>, <<"Bash">>}, c \in {"", "servers"} }

HelperInit ==
    /\ fn \in HookCalls \cup ItemCalls \cup CliConfigCalls \cup SdkConfigCalls
                 \cup RunCalls
    /\ variant = (IF fn.kind \in {"hook", "sdk_config"} THEN "sdk" ELSE "cli")
    /\ outputFile = FALSE
    /\ stdinKind = "valid"
    /\ binary = <<>>
    /\ sinkBroken = FALSE
    /\ pipe = NoPipe
    /\ pc = "helper"
    /\ todo = <<>>
    /\ handlerInstalled = FALSE
    /\ shutting_down = FALSE
    /\ hstack = <<>>
    /\ sigCount = 0
    /\ sigStage = ""
    /\ out = <<>>
    /\ buf = <<>>
    /\ produced = <<>>
    /\ done = FALSE
    /\ exited = FALSE
    /\ exitCode = 0
    /\ exitPath = ""
    /\ iteration = 0
    /\ tokens = 0
    /\ last_answer = ""
    /\ nread = 0
    /\ backendStarted = FALSE
    /\ nsuppressed = 0
    /\ ncallbacks = 0
    /\ child = NoChild

Pending(kind) == fn.kind = kind /\ ~fn.applied
Applied(kind) == fn.kind = kind /\ fn.applied
Returned(value) ==
    /\ fn' = [fn EXCEPT !.applied = TRUE, !.out = value]
    /\ UNCHANGED <<cfgVars, child, pc, todo, sigVars, sinkVars, procVars, runVars>>

ApplyPostToolHook ==
    /\ Pending("hook")
    /\ Returned(_post_tool_hook(fn.arg.name, fn.arg.args, fn.arg.it))

ApplyHandleItemStarted ==
    /\ Pending("item")
    /\ Returned(_handle_item_started(fn.arg.line, fn.arg.it))

ApplyCliCommand ==
    /\ Pending("cli_config")
    /\ Returned(CliCommand(fn.arg))

ApplySdkOptions ==
    /\ Pending("sdk_config")
    /\ Returned(SdkOptions(fn.arg))

ApplyRunChild ==
    /\ Pending("run")
    /\ Returned(RunChild(fn.arg.lines, fn.arg.child))

HelperNext ==
    \/ ApplyRunChild
    \/ ApplyPostToolHook
    \/ ApplyHandleItemStarted
    \/ ApplyCliCommand
    \/ ApplySdkOptions

HelperSpec == HelperInit /\ [][HelperNext]_vars

---------------------------------------------------------------------------
(* Vocabulary of the properties.                                           *)
IsTool(e) == e.type = "tool"
IsResult(e) == e.type = "result"
IsError(e) == e.type = "error"
IsSignalError(e) == e = SignalError

Count(s, P(_)) == Cardinality({i \in 1..Len(s) : P(s[i])})
Has(s, P(_)) == \E i \in 1..Len(s) : P(s[i])
NumTerminal(s) == Count(s, IsTerminal)

---------------------------------------------------------------------------
(* C1: with --output-file, on every exit path the claim lists (normal      *)
(* completion, config error, spawn failure, backend exception, non-zero    *)
(* child exit, SIGTERM handled by the handler) the sentinel .done exists   *)
(* once the process has exited.                                            *)
C1_ListedPaths ==
    {"normal", "config_error", "spawn_failure", "backend_exception",
     "child_nonzero", "sigterm"}

C1_SentinelOnEveryExitPath ==
    (exited /\ outputFile /\ exitPath \in C1_ListedPaths) => done

(* C2: a run that read a valid config with a non-empty prompt (and met no  *)
(* signal) has written exactly one result or error event when it exits,    *)
(* whatever the backend did.                                               *)
C2_ExactlyOneTerminalEvent ==
    (exited /\ stdinKind = "valid" /\ sigCount = 0) => NumTerminal(out) = 1

(* C3: no run writes both a result event and the signal-termination error  *)
(* event.                                                                  *)
C3_NeverResultAndSignalError ==
    ~(Has(produced, IsResult) /\ Has(produced, IsSignalError))

(* C4: a SIGTERM that enters the handler yields exactly one signal error   *)
(* event and exit code 128 + signum; further SIGTERMs, which can only come *)
(* while the first invocation is still running, add no event and leave the *)
(* exit code as it is.                                                     *)
C4_OneSignalEventAndExitCode ==
    /\ Count(produced, IsSignalError) <= 1
    /\ (exited /\ sigStage # "") =>
          /\ Count(out, IsSignalError) = 1
          /\ exitCode = 128 + SIGTERM
          /\ exitPath = "sigterm"

C4_Witness ==
    /\ exited /\ sigCount >= 2 /\ exitPath = "sigterm"
    /\ Count(out, IsSignalError) = 1
    /\ exitCode = 143

(* C5, as stated: whenever a SIGTERM was delivered, at whichever stage, the *)
(* process has written the signal error event, created the sentinel (file  *)
(* output) and exited with 128 + signum.                                   *)
C5_SignalAtAnyStage ==
    (exited /\ sigCount >= 1) =>
        /\ Has(out, IsSignalError)
        /\ (outputFile => done)
        /\ exitCode = 128 + SIGTERM

(* C5, amended: the same for every stage that follows the installation of  *)
(* the handler (stdin read, validation, backend run, after a terminal      *)
(* event): the signal error event is written, the sentinel exists under    *)
(* file output, the exit code is 128 + signum.                             *)
C5_Stages == {"stdin", "validation", "backend", "after_terminal"}

C5_SignalAtAnyStageOnceInstalled ==
    \A stage \in C5_Stages :
        (exited /\ sigStage = stage) =>
            /\ Has(out, IsSignalError)
            /\ (outputFile => done)
            /\ exitCode = 128 + SIGTERM

C5_Witness ==
    /\ exited /\ sigStage = "after_terminal" /\ outputFile /\ done
    /\ Has(out, IsResult) /\ out[Len(out)] = SignalError
    /\ exitCode = 143

(* C6: a configuration error (empty line, invalid JSON, prompt absent or   *)
(* empty) never starts the backend and writes nothing but error events; a  *)
(* run that meets no signal ends with exactly one error event carrying the *)
(* message of that error, the sentinel iff file output, exit status 1.     *)
C6_ConfigErrorKinds == {"empty", "badjson", "noprompt"}

C6_Message(kind) ==
    CASE kind = "empty" -> "empty config on stdin"
      [] kind = "badjson" -> "invalid config JSON"
      [] kind = "noprompt" -> "prompt is required"
      [] OTHER -> ""

C6_ConfigErrorsFailBeforeBackend ==
    stdinKind \in C6_ConfigErrorKinds =>
        /\ ~backendStarted
        /\ ~Has(produced, IsTool) /\ ~Has(produced, IsResult)
        /\ (exited /\ sigCount = 0) =>
              /\ out = <<ErrorEvent(C6_Message(stdinKind))>>
              /\ done = outputFile
              /\ exitCode = 1

C6_Witness ==
    /\ exited /\ sigCount = 0 /\ stdinKind = "noprompt" /\ variant = "sdk"
    /\ outputFile /\ done /\ exitCode = 1
    /\ out = <<ErrorEvent("prompt is required")>>

(* C7: every run that fails with status 1 ends with an error event as the  *)
(* last line of the output.                                                *)
C7_FailureEndsWithErrorEvent ==
    (exited /\ exitCode = 1) => (out # <<>> /\ IsError(out[Len(out)]))

(* C8: status 0 only with a result and no error written; status 1 only     *)
(* with an error and no result; status 128 + signum only with the signal   *)
(* error event.                                                            *)
C8_ExitStatusDeterminesTerminalEvent ==
    exited =>
        /\ exitCode = 0 => (Has(out, IsResult) /\ ~Has(out, IsError))
        /\ exitCode = 1 => (Has(out, IsError) /\ ~Has(out, IsResult))
        /\ exitCode = 128 + SIGTERM => Has(out, IsSignalError)

(* C9: the sink holds whole lines in the order the events were produced:   *)
(* what the host can read, followed by what is pending, is the sequence of *)
(* events in the order of their write calls, also when the handler wrote   *)
(* while the main flow stood between its write and its flush.              *)
C9_SinkHoldsLinesInOrder == out \o buf = produced

C9_Witness ==
    /\ ~outputFile /\ hstack # <<>>
    /\ todo # <<>> /\ Head(todo).op = "flush"
    /\ Len(buf) = 2 /\ buf[2] = SignalError /\ IsTool(buf[1])

(* C10: in the CLI variant the k-th tool event written carries iter = k,   *)
(* and a result event's iters is the number of tool events written:        *)
(* suppressed tool calls and skipped lines do not count.                   *)
C10_Tools == SelectSeq(produced, IsTool)

C10_CliIterCountsToolEvents ==
    variant = "cli" =>
        /\ \A k \in 1..Len(C10_Tools) : C10_Tools[k].iter = k
        /\ \A i \in 1..Len(produced) :
              IsResult(produced[i]) => produced[i].iter = Len(C10_Tools)

C10_Witness ==
    /\ variant = "cli" /\ exited /\ exitCode = 0
    /\ nread = 3 /\ nsuppressed = 1 /\ Len(C10_Tools) = 2
    /\ out[3] = ResultEvent(last_answer, tokens, 2, FALSE)

(* C11: in the SDK variant the k-th tool event written carries iter = k    *)
(* (the first 1, each later one exactly 1 more than the one before it).    *)
C11_SdkIterContiguous ==
    variant = "sdk" =>
        \A k \in 1..Len(C10_Tools) : C10_Tools[k].iter = k

(* C12: in the SDK variant the counter always equals the number of         *)
(* callbacks received so far, forwarded or suppressed, which is at least   *)
(* the number of tool events written; a result event is handed to _emit    *)
(* with iters equal to the number of callbacks received.                   *)
C12_SdkCounterCountsCallbacks ==
    variant = "sdk" =>
        /\ iteration = ncallbacks
        /\ Len(C10_Tools) <= ncallbacks
        /\ (todo # <<>> /\ Head(todo).op = "write" /\ IsResult(Head(todo).ev)) =>
              Head(todo).ev.iter = ncallbacks

C12_Witness ==
    /\ variant = "sdk" /\ exited /\ exitCode = 0
    /\ ncallbacks = 2 /\ nsuppressed = 1 /\ Len(C10_Tools) = 1
    /\ Len(out) = 2 /\ IsResult(out[2]) /\ out[2].iter = 2

(* C17: the shutdown flag starts false, changes only in the handler's      *)
(* "_shutting_down = True", is never reset once true, and the handler body *)
(* (emit, sentinel, exit) is entered only while the flag is still false,   *)
(* hence at most once per process lifetime.                                *)
C17_BodyEntered ==
    /\ HandlerAt("h_set")
    /\ hstack' = SetTop("h_write")

C17_ShutdownFlagIsOneWay ==
    /\ shutting_down = FALSE
    /\ [][/\ shutting_down => shutting_down'
          /\ shutting_down' # shutting_down => HandlerAt("h_set")
          /\ C17_BodyEntered => (~shutting_down /\ shutting_down')
          /\ Count(produced', IsSignalError) > Count(produced, IsSignalError) =>
                (shutting_down /\ Count(produced, IsSignalError) = 0)]_vars

C17_Witness ==
    /\ exited /\ shutting_down /\ sigCount = 2
    /\ Count(out, IsSignalError) = 1

(* C18: CLI variant, the child has been waited for and its return code is  *)
(* not 0: no result event is ever written and at most one error event      *)
(* reports the child; when the run ends (no SIGTERM involved) the exit     *)
(* status is 1 and the output is the tool events forwarded so far followed *)
(* by exactly one error event, whose message is "codex exited with code ", *)
(* the return code, ": " and the first min(400, length) characters of the  *)
(* child's stderr.                                                         *)
C18_Shown ==
    SubSeq(child.stderr, 1,
           IF Len(child.stderr) <= 400 THEN Len(child.stderr) ELSE 400)

C18_IsChildError(e) ==
    /\ e.type = "error"
    /\ e.message = <<"codex exited with code ">> \o IntStr(child.returncode)
                      \o <<": ">> \o C18_Shown

C18_NonZeroExitReported ==
    (variant = "cli" /\ child.returncode # 0) =>
        /\ ~Has(produced, IsResult)
        /\ Count(produced, C18_IsChildError) <= 1
        /\ (exited /\ sigCount = 0) =>
              /\ exitCode = 1
              /\ out # <<>>
              /\ C18_IsChildError(out[Len(out)])
              /\ \A k \in 1..(Len(out) - 1) : IsTool(out[k])
              /\ Len(out) = Len(C10_Tools) + 1

C18_Witness ==
    /\ variant = "cli" /\ exited /\ sigCount = 0 /\ exitCode = 1
    /\ child.returncode = 1 /\ Len(child.stderr) = 401
    /\ Len(out) = 2 /\ IsTool(out[1])
    /\ Len(out[2].message) = 403 /\ out[2].message[2] = "1"

(* C19: CLI variant, the spawn failed with "not found" and the run ended    *)
(* on that path: the output is exactly one error event, whose message ends *)
(* with the name of the binary that was to be run (the configured one      *)
(* without surrounding blanks, "codex" when none is configured); the       *)
(* sentinel exists iff a file output is configured; no tool or result      *)
(* event was written; the exit status is 1.                                *)
C19_BinaryName ==
    IF binary = <<>> THEN <<"codex">> ELSE SelectSeq(binary, LAMBDA t : t # " ")

C19_SpawnFailureReported ==
    (variant = "cli" /\ exited /\ exitPath = "spawn_failure" /\ sigCount = 0) =>
        /\ out = <<ErrorText(<<"codex binary not found: ">> \o C19_BinaryName)>>
        /\ produced = out
        /\ done = outputFile
        /\ exitCode = 1
        /\ ~backendStarted

C19_Witness ==
    /\ variant = "cli" /\ exited /\ exitPath = "spawn_failure" /\ sigCount = 0
    /\ outputFile /\ done /\ exitCode = 1
    /\ binary # <<>>
    /\ Len(out) = 1 /\ out[1].message = <<"codex binary not found: ", "my-codex">>

(* C20: in the CLI loop, reading a blank line, a line that is not valid    *)
(* JSON, or an unexpected line (valid JSON that is no object, an unknown   *)
(* event type, an item or usage field of an unexpected shape) leaves the   *)
(* iteration counter, the token total and the recorded answer unchanged,   *)
(* queues no event, and leaves the run in the loop.                        *)
C20_Anomalous ==
    {line \in CliLines :
        \/ line.kind \in {"blank", "badjson", "nonobject", "thread.started"}
        \/ line.item = "#bad"
        \/ line.arg = "#bad"}

C20_NoLineAbortsTheRun ==
    [][\A line \in C20_Anomalous :
          ReadLineOf(line) =>
              /\ iteration' = iteration
              /\ tokens' = tokens
              /\ last_answer' = last_answer
              /\ todo' = <<>>
              /\ pc' = "loop"]_vars

(* C14: SDK variant, every tool event written carries the base name of the *)
(* tool, never a name with a parenthetical argument hint, and the summary  *)
(* of a Bash event begins with "command=".                                 *)
C14_HasHint(name) == \E i \in 1..Len(name) : name[i] = "("

C14_HintedToolForwardedByBaseName ==
    variant = "sdk" =>
        \A k \in 1..Len(produced) :
            IsTool(produced[k]) =>
                /\ ~C14_HasHint(produced[k].tool_name)
                /\ produced[k].tool_name = <<"Bash">> =>
                      (produced[k].summary # <<>> /\ Head(produced[k].summary) = "command=")

(* C13: for every config whose execution_mode is "plan", whatever its      *)
(* other fields, the prompt sent to the backend is the config prompt       *)
(* followed by the plan-mode directive, and in the CLI variant the         *)
(* --sandbox value is read-only and neither --full-auto nor                *)
(* --dangerously-bypass-approvals-and-sandbox is passed.                   *)
C13_PlanModeIsReadOnly ==
    (fn.applied /\ fn.kind \in {"cli_config", "sdk_config"}
        /\ fn.arg.execution_mode = <<"plan">>) =>
        /\ fn.out.prompt = fn.arg.prompt \o <<PlanDirective>>
        /\ fn.kind = "cli_config" =>
              /\ fn.out.sandbox = "read-only"
              /\ fn.out.flags = {}

(* C15: the summary of the tool event of a shell command is "command="     *)
(* followed by the first min(length, 120) characters of the command text   *)
(* and nothing else; in the CLI variant the command text is what is left   *)
(* of a /bin/<shell> -lc "<text>" wrapper once the wrapper is stripped.    *)
C15_Expected(n) ==
    <<"command=">> \o SubSeq(Text(n), 1, IF n <= 120 THEN n ELSE 120)

C15_SummaryOfEmitted ==
    IF fn.out.emit # <<>> /\ fn.out.emit[1].op = "write"
    THEN fn.out.emit[1].ev.summary
    ELSE <<"no event">>

C15_SummaryCutsAt120 ==
    \A n \in 0..MaxCmdLen :
        /\ (Applied("hook") /\ fn.arg.args = <<Arg("command", Text(n))>>) =>
              C15_SummaryOfEmitted = C15_Expected(n)
        /\ (Applied("item") /\ fn.arg.line.item = "command_execution"
               /\ fn.arg.line.arg # "#bad"
               /\ (fn.arg.line.cmd = Text(n) \/ fn.arg.line.cmd = Wrapped(Text(n)))) =>
              C15_SummaryOfEmitted = C15_Expected(n)

C15_Witness ==
    /\ Applied("item") /\ fn.arg.line.cmd = Wrapped(Text(121))
    /\ Len(C15_SummaryOfEmitted) = 121
    /\ C15_SummaryOfEmitted[121] = Ch(120)

(* C16: SDK variant, a tool callback queues a tool event if and only if    *)
(* the base name of its tool (the name up to a parenthetical hint, blanks  *)
(* stripped) is not in the suppress-set; core tools and tools in neither   *)
(* set are forwarded.                                                      *)
C16_Forwarded ==
    /\ Len(fn.out.emit) = 2
    /\ fn.out.emit[1].op = "write" /\ IsTool(fn.out.emit[1].ev)
    /\ fn.out.emit[1].ev.iter = fn.arg.it + 1

C16_ForwardedIffNotSuppressed ==
    Applied("hook") =>
        \A b \in ToolBases, h \in Hints :
            fn.arg.name = <<b>> \o h =>
                /\ C16_Forwarded <=> b \notin Cc_SKIP_TOOLS
                /\ ~C16_Forwarded => fn.out.emit = <<>>

C16_Witness ==
    /\ Applied("hook") /\ fn.arg.name = <<"mcp__db__query", "(", "git *", ")">>
    /\ fn.arg.it = 1
    /\ C16_Forwarded
    /\ fn.out.emit[1].ev.summary = <<"file_path", "=...", ", ", "query", "=...">>

(* C21: CLI variant, the child wrote its lines and exited normally: the    *)
(* result event's answer is the text of the last item.completed agent      *)
(* message with non-empty text in the stream, and "" when there is none.   *)
C21_IsAnswer(l) ==
    l.kind = "item.completed" /\ l.item = "agent_message" /\ l.arg # ""

C21_Answers == SelectSeq(fn.arg.lines, C21_IsAnswer)

C21_Results ==
    SelectSeq(fn.out, LAMBDA o : o.op = "write" /\ o.ev.type = "result")

C21_AnswerIsLastNonEmptyMessage ==
    Applied("run") =>
        \A k \in 1..Len(C21_Results) :
            /\ fn.arg.child.returncode = 0
            /\ C21_Results[k].ev.answer =
                  (IF C21_Answers = <<>> THEN ""
                   ELSE C21_Answers[Len(C21_Answers)].arg)

C21_Witness ==
    /\ Applied("run") /\ fn.arg.child.returncode = 0
    /\ Len(C21_Results) = 1
    /\ Len(fn.arg.lines) = 3
    /\ fn.arg.lines[1].arg = "a" /\ fn.arg.lines[2].arg = "b"
    /\ fn.arg.lines[3].kind = "item.completed" /\ fn.arg.lines[3].arg = ""
    /\ C21_Results[1].ev.answer = "b"

(* C22: CLI variant, the child wrote its lines and exited normally: the    *)
(* result event's tokens is the sum over the turn.completed lines of       *)
(* input_tokens plus output_tokens, a missing count being 0; its cost is 0 *)
(* and its is_error is false.                                              *)
RECURSIVE C22_Sum(_)
C22_Sum(lines) ==
    IF lines = <<>> THEN 0
    ELSE (IF Head(lines).kind = "turn.completed"
          THEN (IF Head(lines).input_tokens = Absent THEN 0
                ELSE Head(lines).input_tokens)
               + (IF Head(lines).output_tokens = Absent THEN 0
                  ELSE Head(lines).output_tokens)
          ELSE 0)
         + C22_Sum(Tail(lines))

C22_Results ==
    SelectSeq(fn.out, LAMBDA o : o.op = "write" /\ o.ev.type = "result")

C22_TokensAreSummed ==
    Applied("run") =>
        \A k \in 1..Len(C22_Results) :
            /\ C22_Results[k].ev.tokens = C22_Sum(fn.arg.lines)
            /\ C22_Results[k].ev.cost = 0
            /\ C22_Results[k].ev.is_error = FALSE

C22_Witness ==
    /\ Applied("run") /\ fn.arg.child.returncode = 0
    /\ Len(C22_Results) = 1
    /\ fn.arg.lines = <<TurnLine(1, 1), TurnLine(Absent, 2), TurnLine(Absent, Absent)>>
    /\ C22_Results[1].ev.tokens = 4

(* C23: CLI variant, _handle_item_started on an external tool call whose   *)
(* name is in the suppress-list in any letter case, or on an item of a     *)
(* sub-kind other than command execution and external tool call: no event, *)
(* the counter as it was.  On an external tool call of another name: the   *)
(* counter plus 1 and one tool event with that name, an empty summary and  *)
(* no files.                                                               *)
C23_Suppressed == {"Read", "read", "GREP", "glob", "WebFetch", "web_fetch"}

C23_Silent == fn.out.emit = <<>> /\ fn.out.iteration = fn.arg.it /\ ~fn.out.raise

C23_OneToolEvent(name) ==
    /\ fn.out.iteration = fn.arg.it + 1
    /\ ~fn.out.raise
    /\ Len(fn.out.emit) = 2
    /\ fn.out.emit[1].op = "write" /\ fn.out.emit[2].op = "flush"
    /\ fn.out.emit[1].ev.type = "tool"
    /\ fn.out.emit[1].ev.tool_name = <<name>>
    /\ fn.out.emit[1].ev.summary = <<>>
    /\ fn.out.emit[1].ev.files = <<>>
    /\ fn.out.emit[1].ev.iter = fn.arg.it + 1

C23_ItemStartedFrame ==
    Applied("item") =>
        /\ fn.arg.line.item \notin {"command_execution", "mcpToolCall"} => C23_Silent
        /\ fn.arg.line.item = "mcpToolCall" =>
              IF fn.arg.line.arg \in C23_Suppressed THEN C23_Silent
              ELSE C23_OneToolEvent(fn.arg.line.arg)

C23_Witness ==
    /\ Applied("item") /\ fn.arg.line.item = "mcpToolCall"
    /\ fn.arg.line.arg = "GREP" /\ fn.arg.it = 1
    /\ C23_Silent

(* C24: CLI variant, for every combination of sandbox, execution_mode and  *)
(* autonomy_level the value passed with --sandbox is the configured        *)
(* sandbox when there is one; else read-only when execution_mode is plan;  *)
(* else danger-full-access when autonomy_level is full; else the flag is   *)
(* not passed.                                                             *)
C24_Plan == fn.arg.execution_mode \in {<<"plan">>, <<" ", "PLAN">>}
C24_Full == fn.arg.autonomy_level \in {<<"full">>, <<"Full", " ">>}

C24_SandboxPriority ==
    Applied("cli_config") =>
        fn.out.sandbox =
            (CASE fn.arg.sandbox # "" -> fn.arg.sandbox
               [] fn.arg.sandbox = "" /\ C24_Plan -> "read-only"
               [] fn.arg.sandbox = "" /\ ~C24_Plan /\ C24_Full -> "danger-full-access"
               [] OTHER -> "")

C24_Witness ==
    /\ Applied("cli_config")
    /\ fn.arg.sandbox = "" /\ C24_Plan /\ C24_Full
    /\ fn.out.sandbox = "read-only"

(* C25: SDK variant, for every config: in plan mode the permission mode    *)
(* bypasses approval and the allowed tools are the caller's list when one  *)
(* is supplied, else Read, Glob, Grep, WebSearch; outside plan mode with   *)
(* mode autonomous the permission mode bypasses approval and allowed tools *)
(* are set only to a list the caller supplied; with any other mode the     *)
(* permission mode is the default one and no allowed tools are set.        *)
C25_Plan == fn.arg.execution_mode \in {<<"plan">>, <<" ", "PLAN">>}

C25_PermissionPolicy ==
    Applied("sdk_config") =>
        /\ C25_Plan =>
              /\ fn.out.permission_mode = "bypassPermissions"
              /\ fn.out.allowed_tools =
                    (IF fn.arg.allowed_tools # <<>> THEN fn.arg.allowed_tools
                     ELSE <<"Read", "Glob", "Grep", "WebSearch">>)
        /\ ~C25_Plan /\ fn.arg.mode = "autonomous" =>
              /\ fn.out.permission_mode = "bypassPermissions"
              /\ fn.out.allowed_tools = fn.arg.allowed_tools
        /\ ~C25_Plan /\ fn.arg.mode # "autonomous" =>
              /\ fn.out.permission_mode = "default"
              /\ fn.out.allowed_tools = <<>>

C25_Witness ==
    /\ Applied("sdk_config")
    /\ C25_Plan /\ fn.arg.mode = "interactive"
    /\ fn.arg.allowed_tools = <<"Bash">>
    /\ fn.out.permission_mode = "bypassPermissions"
    /\ fn.out.allowed_tools = <<"Bash">>

(* C26: SDK variant, the backend run raised (while connecting, querying,   *)
(* receiving or closing, a result event written before or not) and no      *)
(* SIGTERM is involved: the except branch writes one error event carrying  *)
(* the exception's message, the only error event of the run; the sentinel  *)
(* is created after that event has reached the sink; the exit comes after  *)
(* the sentinel and its status is 1.                                       *)
C26_IsExceptionError(e) == e.type = "error" /\ e.message = Str("exception")

C26_Raised ==
    /\ variant = "sdk" /\ hstack = <<>> /\ sigCount = 0
    /\ todo # <<>>
    /\ todo[Len(todo)].op = "exit" /\ todo[Len(todo)].path = "backend_exception"

C26_ErrorIsLast(o) ==
    /\ o # <<>>
    /\ C26_IsExceptionError(o[Len(o)])
    /\ Count(o, IsError) = 1

C26_ExceptionReportedThenSentinelThenExit ==
    [][ (C26_Raised /\ hstack' = <<>>) =>
          /\ Head(todo).op = "write" =>
                C26_IsExceptionError(Head(todo).ev) /\ ~Has(produced, IsError)
          /\ Head(todo).op = "sentinel" =>
                C26_ErrorIsLast(out) /\ buf = <<>> /\ ~exited
          /\ Head(todo).op = "exit" =>
                /\ C26_ErrorIsLast(out')
                /\ outputFile => done
                /\ exited' => exitCode' = 1 ]_vars

C26_Witness ==
    /\ variant = "sdk" /\ exited /\ exitPath = "backend_exception"
    /\ pc = "close" \/ pc = "exited"
    /\ sigCount = 0 /\ exitCode = 1 /\ done
    /\ Len(out) = 2 /\ IsResult(out[1]) /\ C26_IsExceptionError(out[2])

(* C28: once the sentinel file exists no event is written to the output    *)
(* file any more: no step taken while .done exists changes the lines the   *)
(* file holds, whichever of the main flow and the signal handler takes it. *)
C28_NoWriteAfterSentinel == [][ done => out' = out ]_vars

(* C30: CLI variant, the step that writes a result event is taken after    *)
(* the child's stdout reached end of stream and the child was waited for   *)
(* and returned 0; the step that writes a tool event is taken while        *)
(* neither a result nor the error event of a non-zero exit has been        *)
(* written.                                                                *)
C30_Written(P(_)) ==
    /\ Len(produced') = Len(produced) + 1
    /\ P(produced'[Len(produced')])

C30_IsChildExitError(e) ==
    /\ e.type = "error"
    /\ Len(e.message) >= 1
    /\ e.message[1] = "codex exited with code "

C30_ResultAfterCleanExitToolsBefore ==
    [][ variant = "cli" =>
          /\ C30_Written(IsResult) =>
                pc = "wait" /\ child.returncode = 0 /\ ~Has(produced, IsResult)
          /\ C30_Written(IsTool) =>
                /\ pc = "loop"
                /\ ~Has(produced, IsResult)
                /\ ~Has(produced, C30_IsChildExitError) ]_vars

C30_Witness ==
    /\ variant = "cli" /\ exited /\ exitCode = 0 /\ child.returncode = 0
    /\ Len(produced) = 3
    /\ IsTool(produced[1]) /\ IsTool(produced[2]) /\ IsResult(produced[3])

(* C27: a step taken while a frame of the signal handler is active leaves  *)
(* the iteration counter, the token totals, the recorded answer and the    *)
(* child process as they were, and when the handler ends the process, also *)
(* after its write or flush of the error event failed, the exit status is  *)
(* 128 + the signal number.                                                *)
C27_HandlerTouchesNothingAndExits143 ==
    [][ hstack # <<>> =>
          /\ iteration' = iteration
          /\ tokens' = tokens
          /\ last_answer' = last_answer
          /\ child' = child
          /\ backendStarted' = backendStarted
          /\ (exited' /\ exitPath' = "sigterm") => exitCode' = 128 + SIGTERM ]_vars

(* C29: CLI variant, the child writes finitely many lines and chunks and   *)
(* exits once its writes are accepted: until the bridge has exited, the    *)
(* bridge or the child can take a step, so the two never block on each     *)
(* other forever, also when the child fills the stderr pipe.               *)
C29_BridgeAndChildNeverBlockEachOther == exited \/ ENABLED PipeNext

=============================================================================
